---------------------------- MODULE Spec2Model ----------------------------
(***************************************************************************)
(* A model of the SportsWorldCentral (SWC) fantasy football API:           *)
(*   - the data-access function get_player           (chapter3/crud.py),   *)
(*   - the pytest fixture db_session and test_get_player                   *)
(*                                                  (chapter3/test_crud.py)*)
(*   - the FastAPI service: get_db and the handlers  (chapter6/main.py),   *)
(*   - the client SDK SWCClient         (chapter7/sdk/src/swcpy/swc_client) *)
(*                                                                         *)
(* The data-access functions that main.py calls and that are not part of   *)
(* the source at hand (get_players, get_performances, get_league,          *)
(* get_leagues, get_teams and the three counts) are modelled from the      *)
(* written specification of the data-access layer.                         *)
(*                                                                         *)
(* Python's None is the empty sequence << >>, a present value v is <<v>>.  *)
(* Dates are day numbers.                                                  *)
(***************************************************************************)
EXTENDS Integers, Sequences, FiniteSets, TLC

VARIABLES
    store,      \* the relational store: one sequence of rows for each table
    storeUp,    \* TRUE while the store answers queries
    sessions,   \* the sessions SessionLocal() has made: id -> [by, open]
    req,        \* the requests and test runs: slot -> its record
    client      \* the SDK side: calls made through SWCClient

vars == <<store, storeUp, sessions, req, client>>

-----------------------------------------------------------------------------
(* Bounds of the model *)

MaxPlayers == 2
MaxLeagues == 2
MaxPage == 2
MaxReq == 2
MaxCalls == 3

(* Constants of the program *)

DefaultSkip == 0
DefaultLimit == 100
FirstPlayerId == 1001
FirstLeagueId == 5001
NotFound == 404

None == << >>
Some(v) == <<v>>
Min(a, b) == IF a < b THEN a ELSE b

-----------------------------------------------------------------------------
(* The reference rows an external loader may have put into the store.  The *)
(* i-th player, league, team and performance are fixed rows; a store holds *)
(* some of them, in some order.                                            *)

PlayerIds == FirstPlayerId .. (FirstPlayerId + MaxPlayers - 1)
LeagueIds == FirstLeagueId .. (FirstLeagueId + MaxLeagues - 1)

Player(id) ==
    [player_id |-> id,
     first_name |-> IF id = FirstPlayerId THEN "Bryce" ELSE "Cam",
     last_name |-> IF id <= FirstPlayerId + 1 THEN "Young" ELSE "Ward",
     last_changed_date |-> (id - FirstPlayerId) % 2]

LeagueRow(id) ==
    [league_id |-> id,
     league_name |-> IF id = FirstLeagueId THEN "Pigskin Prodigal Fantasy League"
                     ELSE "Recurring Champions League",
     last_changed_date |-> (id - FirstLeagueId) % 2]

\* Two teams for each league; a team's name is unique inside its league only.
Team(league_id, k) ==
    [team_id |-> 1000 + 2 * (league_id - FirstLeagueId) + k,
     team_name |-> IF k = 1 THEN "Roaring Kitties" ELSE "Wicked Awesome",
     league_id |-> league_id,
     last_changed_date |-> k - 1]

\* One performance for each player and week.
Performance(player_id, week) ==
    [player_id |-> player_id,
     week_number |-> week,
     fantasy_points |-> 10 * week + (player_id - FirstPlayerId),
     last_changed_date |-> week - 1]

InjectiveSeqs(S) ==
    UNION {{s \in [1..n -> S] : \A i, j \in 1..n : i # j => s[i] # s[j]}
           : n \in 0..Cardinality(S)}

\* The store that holds the given players and leagues, in the given order,
\* with the teams of those leagues and the performances of those players.
MakeStore(pids, lids) ==
    [players |-> [i \in 1..Len(pids) |-> Player(pids[i])],
     leagues |-> [i \in 1..Len(lids) |-> LeagueRow(lids[i])],
     teams |-> [i \in 1..(2 * Len(lids)) |-> Team(lids[(i + 1) \div 2], 2 - (i % 2))],
     performances |->
         [i \in 1..(2 * Len(pids)) |-> Performance(pids[(i + 1) \div 2], 2 - (i % 2))]]

Stores == {MakeStore(p, l) : p \in InjectiveSeqs(PlayerIds), l \in InjectiveSeqs(LeagueIds)}

-----------------------------------------------------------------------------
(* The data-access layer (crud).  db is the content of the store as the    *)
(* session reads it.                                                       *)

\* Query.first(): the first row of a result, or None.
first(rows) == IF rows = << >> THEN None ELSE Some(rows[1])

\* Query.offset(skip).limit(limit).all(), for skip >= 0 and limit >= 0.
offset_limit(rows, skip, limit) == SubSeq(rows, skip + 1, Min(Len(rows), skip + limit))

\* A wrong lookup: the filter on player_id is lost.
get_player_unfiltered(db, player_id) == first(db.players)

\* A wrong lookup: the comparison of the filter is the other way round.
get_player_negated(db, player_id) ==
    LET p(row) == row.player_id # player_id
    IN first(SelectSeq(db.players, p))

get_player(db, player_id) ==
    LET p(row) == row.player_id = player_id
    IN first(SelectSeq(db.players, p))

\* A wrong query: it deletes the first player and commits.
query_effect_delete(db) == [db EXCEPT !.players = IF @ = << >> THEN @ ELSE Tail(@)]

\* A query issues SELECT statements only: the store after it is the store before.
query_effect(db) == db

get_players(db, skip, limit, min_last_changed_date, first_name, last_name) ==
    LET p(row) ==
            /\ min_last_changed_date # None =>
                   row.last_changed_date >= min_last_changed_date[1]
            /\ first_name # None => row.first_name = first_name[1]
            /\ last_name # None => row.last_name = last_name[1]
    IN offset_limit(SelectSeq(db.players, p), skip, limit)

get_performances(db, skip, limit, min_last_changed_date) ==
    LET p(row) ==
            min_last_changed_date # None =>
                row.last_changed_date >= min_last_changed_date[1]
    IN offset_limit(SelectSeq(db.performances, p), skip, limit)

\* A League entity: its row and, through the relationship, its teams.
League(db, row) ==
    LET t(team) == team.league_id = row.league_id
    IN [league_id |-> row.league_id,
        league_name |-> row.league_name,
        last_changed_date |-> row.last_changed_date,
        teams |-> SelectSeq(db.teams, t)]

Leagues(db, rows) == [i \in 1..Len(rows) |-> League(db, rows[i])]

get_league(db, league_id) ==
    LET p(row) == row.league_id = league_id
    IN first(Leagues(db, SelectSeq(db.leagues, p)))

get_leagues(db, skip, limit, min_last_changed_date, league_name) ==
    LET p(row) ==
            /\ min_last_changed_date # None =>
                   row.last_changed_date >= min_last_changed_date[1]
            /\ league_name # None => row.league_name = league_name[1]
    IN Leagues(db, offset_limit(SelectSeq(db.leagues, p), skip, limit))

get_teams(db, skip, limit, min_last_changed_date, team_name, league_id) ==
    LET p(row) ==
            /\ min_last_changed_date # None =>
                   row.last_changed_date >= min_last_changed_date[1]
            /\ team_name # None => row.team_name = team_name[1]
            /\ league_id # None => row.league_id = league_id[1]
    IN offset_limit(SelectSeq(db.teams, p), skip, limit)

get_player_count(db) == Len(db.players)
get_team_count(db) == Len(db.teams)
get_league_count(db) == Len(db.leagues)

-----------------------------------------------------------------------------
(* Sessions.  SessionLocal() makes a new session at every call; a session  *)
(* is known by its number.                                                 *)

SessionLocal(ss) == Len(ss) + 1

\* A wrong dependency: one module-level session handed to every request.
get_db_shared(ss) == 1

\* get_db, line 41: db = SessionLocal()
get_db_session(ss) == SessionLocal(ss)

\* db_session, line 14: session = SessionLocal()
db_session_session(ss) == SessionLocal(ss)

\* The sessions after request r has been given session db.
opened(ss, db, r) ==
    [i \in (DOMAIN ss) \cup {db} |-> IF i = db THEN [by |-> r, open |-> TRUE] ELSE ss[i]]

\* A wrong release: the session is left open.
close_nothing(ss, db) == ss

\* Session.close()
close(ss, db) == [ss EXCEPT ![db].open = FALSE]

-----------------------------------------------------------------------------
(* The HTTP service (main.py) and the test run (test_crud.py).             *)
(*                                                                         *)
(* A slot of req is one HTTP request or one run of a test:                 *)
(*   pc        idle -> routed -> handler -> finally -> done                *)
(*             (a handler without a dependency goes from routed to done)   *)
(*   op        the handler or test function                                *)
(*   params    what the caller supplied; None for a parameter left out     *)
(*   db        the session the dependency gave, or None                    *)
(*   call      the data-access call the handler made, or None              *)
(*   returned  what that call returned, or None when it did not return     *)
(*   raised    the exception that ended the handler or test, "" for none   *)
(*   status    the status of the HTTP response, 0 before it and for tests  *)
(*   body      the body of the HTTP response                               *)

IdleReq ==
    [pc |-> "idle", op |-> "", params |-> << >>, db |-> None, call |-> None,
     returned |-> None, raised |-> "", status |-> 0, body |-> None]

HealthMessage == [message |-> "API health check successful"]
ServerError == "Internal Server Error"

\* fastapi.Query(default): the value the handler gets for a query parameter.
Query(given, default) == IF given = None THEN default ELSE given[1]

\* A wrong signature: every handler, root too, declares db = Depends(get_db).
dependency_everywhere(op) == IF op = "test_get_player" THEN "db_session" ELSE "get_db"

\* What the signature of a handler or test asks to be injected.
dependency(op) ==
    CASE op = "root" -> "none"
      [] op = "test_get_player" -> "db_session"
      [] OTHER -> "get_db"

\* The handler body of op may run in slot r.
Ready(r, op) ==
    /\ req[r].op = op
    /\ req[r].pc = IF dependency(op) = "none" THEN "routed" ELSE "handler"

\* The handler body of slot r ends.
Finish(r, call, returned, raised, status, body) ==
    req' = [req EXCEPT ![r] =
               [req[r] EXCEPT !.pc = IF req[r].db = None THEN "done" ELSE "finally",
                              !.call = call, !.returned = returned, !.raised = raised,
                              !.status = status, !.body = body]]

\* A data-access call on a store that does not answer raises.
Unavailable(r, call) == Finish(r, Some(call), None, "OperationalError", 500, ServerError)

\* A wrong translation: the two not-found branches are exchanged.
read_player_response_inverted(player) ==
    IF player # None
    THEN [raised |-> "HTTPException", status |-> NotFound,
          body |-> [detail |-> "Player not found"]]
    ELSE [raised |-> "", status |-> 200, body |-> player]

\* read_player, lines 94-96
read_player_response(player) ==
    IF player = None
    THEN [raised |-> "HTTPException", status |-> NotFound,
          body |-> [detail |-> "Player not found"]]
    ELSE [raised |-> "", status |-> 200, body |-> player[1]]

\* read_league, lines 141-143
read_league_response(league) ==
    IF league = None
    THEN [raised |-> "HTTPException", status |-> NotFound,
          body |-> [detail |-> "League not found"]]
    ELSE [raised |-> "", status |-> 200, body |-> league[1]]

\* A wrong pass-through: first_name and last_name are exchanged.
read_players_call_swapped(params) ==
    [fn |-> "get_players",
     skip |-> Query(params.skip, DefaultSkip),
     limit |-> Query(params.limit, DefaultLimit),
     min_last_changed_date |-> params.minimum_last_changed_date,
     first_name |-> params.last_name,
     last_name |-> params.first_name]

\* read_players, lines 62-76
read_players_call(params) ==
    [fn |-> "get_players",
     skip |-> Query(params.skip, DefaultSkip),
     limit |-> Query(params.limit, DefaultLimit),
     min_last_changed_date |-> params.minimum_last_changed_date,
     first_name |-> params.first_name,
     last_name |-> params.last_name]

\* A wrong pass-through: the next page starts one row late.
read_performances_call_late(params) ==
    [fn |-> "get_performances",
     skip |-> Query(params.skip, DefaultSkip) + 1,
     limit |-> Query(params.limit, DefaultLimit),
     min_last_changed_date |-> params.minimum_last_changed_date]

\* read_performances, lines 109-123
read_performances_call(params) ==
    [fn |-> "get_performances",
     skip |-> Query(params.skip, DefaultSkip),
     limit |-> Query(params.limit, DefaultLimit),
     min_last_changed_date |-> params.minimum_last_changed_date]

\* read_leagues, lines 156-177
read_leagues_call(params) ==
    [fn |-> "get_leagues",
     skip |-> Query(params.skip, DefaultSkip),
     limit |-> Query(params.limit, DefaultLimit),
     min_last_changed_date |-> params.minimum_last_changed_date,
     league_name |-> params.league_name]

\* read_teams, lines 191-217
read_teams_call(params) ==
    [fn |-> "get_teams",
     skip |-> Query(params.skip, DefaultSkip),
     limit |-> Query(params.limit, DefaultLimit),
     min_last_changed_date |-> params.minimum_last_changed_date,
     team_name |-> params.team_name,
     league_id |-> params.league_id]

\* What the data-access layer returns for a list call on db.
crud(db, call) ==
    CASE call.fn = "get_players" ->
             get_players(db, call.skip, call.limit, call.min_last_changed_date,
                         call.first_name, call.last_name)
      [] call.fn = "get_performances" ->
             get_performances(db, call.skip, call.limit, call.min_last_changed_date)
      [] call.fn = "get_leagues" ->
             get_leagues(db, call.skip, call.limit, call.min_last_changed_date,
                         call.league_name)
      [] call.fn = "get_teams" ->
             get_teams(db, call.skip, call.limit, call.min_last_changed_date,
                       call.team_name, call.league_id)

-----------------------------------------------------------------------------
(* The steps of a request *)

\* A caller sends one of the requests R, or pytest starts a test of R.
Request(r, R) ==
    /\ req[r].pc = "idle"
    /\ \E q \in R :
           req' = [req EXCEPT ![r] =
                      [IdleReq EXCEPT !.pc = "routed", !.op = q.op, !.params = q.params]]
    /\ UNCHANGED <<store, storeUp, sessions, client>>

\* get_db up to its yield: the session is made before the handler runs.
get_db(r) ==
    /\ req[r].pc = "routed"
    /\ dependency(req[r].op) = "get_db"
    /\ LET db == get_db_session(sessions)
       IN /\ sessions' = opened(sessions, db, r)
          /\ req' = [req EXCEPT ![r].pc = "handler", ![r].db = Some(db)]
    /\ UNCHANGED <<store, storeUp, client>>

\* get_db after its yield: the finally clause, on a return and on an exception.
get_db_finally(r) ==
    /\ req[r].pc = "finally"
    /\ dependency(req[r].op) = "get_db"
    /\ sessions' = close(sessions, req[r].db[1])
    /\ req' = [req EXCEPT ![r].pc = "done"]
    /\ UNCHANGED <<store, storeUp, client>>

root(r) ==
    /\ Ready(r, "root")
    /\ Finish(r, None, None, "", 200, HealthMessage)
    /\ UNCHANGED <<store, storeUp, sessions, client>>

read_player(r) ==
    /\ Ready(r, "read_player")
    /\ LET call == [fn |-> "get_player", player_id |-> req[r].params.player_id]
       IN IF storeUp
          THEN LET player == get_player(store, call.player_id)
                   response == read_player_response(player)
               IN Finish(r, Some(call), Some(player), response.raised, response.status,
                         response.body)
          ELSE Unavailable(r, call)
    /\ store' = query_effect(store)
    /\ UNCHANGED <<storeUp, sessions, client>>

read_league(r) ==
    /\ Ready(r, "read_league")
    /\ LET call == [fn |-> "get_league", league_id |-> req[r].params.league_id]
       IN IF storeUp
          THEN LET league == get_league(store, call.league_id)
                   response == read_league_response(league)
               IN Finish(r, Some(call), Some(league), response.raised, response.status,
                         response.body)
          ELSE Unavailable(r, call)
    /\ store' = query_effect(store)
    /\ UNCHANGED <<storeUp, sessions, client>>

\* The body shared by the four list handlers: call, then return what came back.
ListHandler(r, call) ==
    /\ IF storeUp
       THEN LET rows == crud(store, call)
            IN Finish(r, Some(call), Some(rows), "", 200, rows)
       ELSE Unavailable(r, call)
    /\ store' = query_effect(store)
    /\ UNCHANGED <<storeUp, sessions, client>>

read_players(r) ==
    /\ Ready(r, "read_players")
    /\ ListHandler(r, read_players_call(req[r].params))

read_performances(r) ==
    /\ Ready(r, "read_performances")
    /\ ListHandler(r, read_performances_call(req[r].params))

read_leagues(r) ==
    /\ Ready(r, "read_leagues")
    /\ ListHandler(r, read_leagues_call(req[r].params))

read_teams(r) ==
    /\ Ready(r, "read_teams")
    /\ ListHandler(r, read_teams_call(req[r].params))

get_count(r) ==
    /\ Ready(r, "get_count")
    /\ LET call == [fn |-> "get_league_count"]
       IN IF storeUp
          THEN LET counts == [league_count |-> get_league_count(store),
                              team_count |-> get_team_count(store),
                              player_count |-> get_player_count(store)]
               IN Finish(r, Some(call), Some(counts), "", 200, counts)
          ELSE Unavailable(r, call)
    /\ store' = query_effect(store)
    /\ UNCHANGED <<storeUp, sessions, client>>

-----------------------------------------------------------------------------
(* The test run: the fixture db_session around test_get_player.  pytest    *)
(* resumes the fixture after the test whatever the outcome of the test.    *)

\* db_session up to its yield
db_session(r) ==
    /\ req[r].pc = "routed"
    /\ dependency(req[r].op) = "db_session"
    /\ LET session == db_session_session(sessions)
       IN /\ sessions' = opened(sessions, session, r)
          /\ req' = [req EXCEPT ![r].pc = "handler", ![r].db = Some(session)]
    /\ UNCHANGED <<store, storeUp, client>>

\* db_session after its yield
db_session_teardown(r) ==
    /\ req[r].pc = "finally"
    /\ dependency(req[r].op) = "db_session"
    /\ sessions' = close(sessions, req[r].db[1])
    /\ req' = [req EXCEPT ![r].pc = "done"]
    /\ UNCHANGED <<store, storeUp, client>>

test_get_player(r) ==
    /\ Ready(r, "test_get_player")
    /\ LET call == [fn |-> "get_player", player_id |-> FirstPlayerId]
       IN IF storeUp
          THEN LET player == get_player(store, call.player_id)
               IN Finish(r, Some(call), Some(player),
                         IF player = None THEN "AttributeError"
                         ELSE IF player[1].player_id = FirstPlayerId THEN ""
                         ELSE "AssertionError",
                         0, None)
          ELSE Finish(r, Some(call), None, "OperationalError", 0, None)
    /\ store' = query_effect(store)
    /\ UNCHANGED <<storeUp, sessions, client>>

-----------------------------------------------------------------------------
(* The environment of the service: the store may stop answering and        *)
(* answer again, and an external loader may replace its content.           *)

ReferenceStore ==
    MakeStore([i \in 1..MaxPlayers |-> FirstPlayerId + i - 1],
              [i \in 1..MaxLeagues |-> FirstLeagueId + i - 1])

EmptyStore == MakeStore(<< >>, << >>)

StoreFails ==
    /\ storeUp
    /\ storeUp' = FALSE
    /\ UNCHANGED <<store, sessions, req, client>>

StoreRecovers ==
    /\ ~storeUp
    /\ storeUp' = TRUE
    /\ UNCHANGED <<store, sessions, req, client>>

ExternalLoad ==
    /\ store' \in {ReferenceStore, EmptyStore} \ {store}
    /\ UNCHANGED <<storeUp, sessions, req, client>>

-----------------------------------------------------------------------------
(* The client SDK (swc_client.py).  client is                              *)
(*   pc        ready, or sending while a GET is on the wire                *)
(*   open      TRUE while the httpx.Client of the with statement is open   *)
(*   outcomes  what each GET of the call under way met                     *)
(*   log       the finished calls: the path asked, the outcome of each     *)
(*             GET, and what the caller got (a response or an exception)   *)

IdleClient == [pc |-> "ready", open |-> FALSE, outcomes |-> << >>, log |-> << >>]

\* What one GET can meet: a response with a status, or a transport error.
Outcomes ==
    {[error |-> "", status_code |-> c] : c \in {200, 404, 500, 503}}
        \cup {[error |-> e, status_code |-> 0] : e \in {"ConnectError", "ReadTimeout"}}

\* A network error or a server error.
Transient(outcome) == outcome.error # "" \/ outcome.status_code >= 500

\* A call wrapped in backoff.on_exception: a transient failure is tried again.
get_health_check_backoff(outcomes) ==
    Transient(outcomes[Len(outcomes)]) /\ Len(outcomes) < 3

\* get_health_check, lines 32-35: one client.get("/"); nothing tries again.
get_health_check_again(outcomes) == FALSE

\* get_health_check is called: the with statement opens a client and sends GET /.
get_health_check ==
    /\ client.pc = "ready"
    /\ Len(client.log) < MaxCalls
    /\ client' = [client EXCEPT !.pc = "sending", !.open = TRUE, !.outcomes = << >>]
    /\ UNCHANGED <<store, storeUp, sessions, req>>

\* The GET meets an outcome; the call returns the response, or the error leaves it.
get_health_check_return ==
    /\ client.pc = "sending"
    /\ \E o \in Outcomes :
           LET outcomes == Append(client.outcomes, o)
           IN IF get_health_check_again(outcomes)
              THEN client' = [client EXCEPT !.outcomes = outcomes]
              ELSE client' =
                       [client EXCEPT
                           !.pc = "ready", !.open = FALSE, !.outcomes = << >>,
                           !.log = Append(@, [path |-> "/",
                                              outcomes |-> outcomes,
                                              raised |-> o.error,
                                              response |-> IF o.error = "" THEN Some(o)
                                                           ELSE None])]
    /\ UNCHANGED <<store, storeUp, sessions, req>>

-----------------------------------------------------------------------------
(* The requests a caller may send *)

Optional(S) == {None} \cup {Some(v) : v \in S}
Pages == Optional(0..MaxPage)

AllRequests ==
    {[op |-> "root", params |-> << >>],
     [op |-> "get_count", params |-> << >>],
     [op |-> "test_get_player", params |-> << >>]}
    \cup {[op |-> "read_player", params |-> [player_id |-> i]]
          : i \in FirstPlayerId .. (FirstPlayerId + MaxPlayers)}
    \cup {[op |-> "read_league", params |-> [league_id |-> i]]
          : i \in FirstLeagueId .. (FirstLeagueId + MaxLeagues)}
    \cup {[op |-> "read_players",
           params |-> [skip |-> s, limit |-> l, minimum_last_changed_date |-> d,
                       first_name |-> f, last_name |-> n]]
          : s \in Pages, l \in Pages, d \in Optional({1}),
            f \in Optional({"Bryce"}), n \in Optional({"Young"})}
    \cup {[op |-> "read_performances",
           params |-> [skip |-> s, limit |-> l, minimum_last_changed_date |-> d]]
          : s \in Pages, l \in Pages, d \in Optional({1})}
    \cup {[op |-> "read_leagues",
           params |-> [skip |-> s, limit |-> l, minimum_last_changed_date |-> d,
                       league_name |-> n]]
          : s \in Pages, l \in Pages, d \in Optional({1}),
            n \in Optional({"Recurring Champions League"})}
    \cup {[op |-> "read_teams",
           params |-> [skip |-> s, limit |-> l, minimum_last_changed_date |-> d,
                       team_name |-> n, league_id |-> i]]
          : s \in Pages, l \in Pages, d \in Optional({1}),
            n \in Optional({"Roaring Kitties"}), i \in Optional({FirstLeagueId})}

\* The requests of the runs that interleave several slots: one without a
\* session, one that ends in 200 or 404, one list, one with three queries, a test.
FewRequests ==
    {q \in AllRequests :
        \/ q.op \in {"root", "get_count", "test_get_player"}
        \/ q.op = "read_player"
               /\ q.params.player_id \in {FirstPlayerId, FirstPlayerId + MaxPlayers}
        \/ /\ q.op = "read_players"
           /\ \A p \in DOMAIN q.params : q.params[p] = None}

-----------------------------------------------------------------------------
(* Specifications *)

\* One request or test at a time, on every store and with every request.
Init ==
    /\ store \in Stores
    /\ storeUp = TRUE
    /\ sessions = << >>
    /\ req = [r \in {1} |-> IdleReq]
    /\ client = IdleClient

Next ==
    \/ \E r \in DOMAIN req : Request(r, AllRequests)
    \/ \E r \in DOMAIN req : get_db(r)
    \/ \E r \in DOMAIN req : root(r)
    \/ \E r \in DOMAIN req : read_players(r)
    \/ \E r \in DOMAIN req : read_player(r)
    \/ \E r \in DOMAIN req : read_performances(r)
    \/ \E r \in DOMAIN req : read_league(r)
    \/ \E r \in DOMAIN req : read_leagues(r)
    \/ \E r \in DOMAIN req : read_teams(r)
    \/ \E r \in DOMAIN req : get_count(r)
    \/ \E r \in DOMAIN req : get_db_finally(r)
    \/ \E r \in DOMAIN req : db_session(r)
    \/ \E r \in DOMAIN req : test_get_player(r)
    \/ \E r \in DOMAIN req : db_session_teardown(r)
    \/ StoreFails
    \/ StoreRecovers

Spec == Init /\ [][Next]_vars

\* One request or test at a time, while an external loader replaces the store.
InitLoad ==
    /\ store = ReferenceStore
    /\ storeUp = TRUE
    /\ sessions = << >>
    /\ req = [r \in {1} |-> IdleReq]
    /\ client = IdleClient

NextLoad ==
    \/ Next
    \/ ExternalLoad

SpecLoad == InitLoad /\ [][NextLoad]_vars

\* The handler or test body of slot r, whichever it is.
Body(r) ==
    \/ root(r)
    \/ read_players(r)
    \/ read_player(r)
    \/ read_performances(r)
    \/ read_league(r)
    \/ read_leagues(r)
    \/ read_teams(r)
    \/ get_count(r)
    \/ test_get_player(r)

\* A request that was received is served: its dependency is resolved, its
\* handler returns or raises, and the framework resumes the dependency (pytest:
\* the fixture) after it.
Served ==
    \A r \in {1} :
        /\ WF_vars(get_db(r) \/ db_session(r))
        /\ WF_vars(Body(r))
        /\ WF_vars(get_db_finally(r) \/ db_session_teardown(r))

SpecFair == InitLoad /\ [][Next]_vars /\ Served

\* Several requests and tests side by side, while the store comes and goes.
InitConc ==
    /\ store = ReferenceStore
    /\ storeUp = TRUE
    /\ sessions = << >>
    /\ req = [r \in 1..MaxReq |-> IdleReq]
    /\ client = IdleClient

NextConc ==
    \/ \E r \in DOMAIN req : Request(r, FewRequests)
    \/ \E r \in DOMAIN req : get_db(r)
    \/ \E r \in DOMAIN req : root(r)
    \/ \E r \in DOMAIN req : read_players(r)
    \/ \E r \in DOMAIN req : read_player(r)
    \/ \E r \in DOMAIN req : get_count(r)
    \/ \E r \in DOMAIN req : get_db_finally(r)
    \/ \E r \in DOMAIN req : db_session(r)
    \/ \E r \in DOMAIN req : test_get_player(r)
    \/ \E r \in DOMAIN req : db_session_teardown(r)
    \/ StoreFails
    \/ StoreRecovers

SpecConc == InitConc /\ [][NextConc]_vars

\* The SDK alone, against a service and a network that may fail.
InitClient ==
    /\ store = EmptyStore
    /\ storeUp = TRUE
    /\ sessions = << >>
    /\ req = << >>
    /\ client = IdleClient

NextClient ==
    \/ get_health_check
    \/ get_health_check_return

SpecClient == InitClient /\ [][NextClient]_vars

-----------------------------------------------------------------------------
(* Properties *)

\* Slot r holds a request or test of op whose handler body has ended.
Handled(r, op) == req[r].op = op /\ req[r].pc \in {"finally", "done"}

HasPlayer(player_id) == \E i \in DOMAIN store.players : store.players[i].player_id = player_id
HasLeague(league_id) == \E i \in DOMAIN store.leagues : store.leagues[i].league_id = league_id

\* C1: read_player and read_league answer 404, with the detail "Player not
\* found" / "League not found", exactly when the lookup returned None, and
\* answer the entity found otherwise; no 404 for an id the store holds, and no
\* success without an entity.
C1_NotFoundExactlyWhenAbsent ==
    \A r \in DOMAIN req :
        /\ Handled(r, "read_player") =>
               /\ req[r].status = NotFound <=>
                      (req[r].returned # None /\ req[r].returned[1] = None)
               /\ req[r].status = NotFound =>
                      /\ req[r].body = [detail |-> "Player not found"]
                      /\ ~HasPlayer(req[r].params.player_id)
               /\ (req[r].returned # None /\ req[r].returned[1] # None) =>
                      /\ req[r].status = 200
                      /\ req[r].body = req[r].returned[1][1]
               /\ req[r].status = 200 => req[r].returned \notin {None, Some(None)}
        /\ Handled(r, "read_league") =>
               /\ req[r].status = NotFound <=>
                      (req[r].returned # None /\ req[r].returned[1] = None)
               /\ req[r].status = NotFound =>
                      /\ req[r].body = [detail |-> "League not found"]
                      /\ ~HasLeague(req[r].params.league_id)
               /\ (req[r].returned # None /\ req[r].returned[1] # None) =>
                      /\ req[r].status = 200
                      /\ req[r].body = req[r].returned[1][1]
               /\ req[r].status = 200 => req[r].returned \notin {None, Some(None)}

\* A lookup of a league the store does not hold, among leagues it holds, ended in 404.
C1_Witness ==
    \E r \in DOMAIN req :
        /\ Handled(r, "read_league")
        /\ req[r].status = NotFound
        /\ store.leagues # << >>

Scoped(r) ==
    /\ (req[r].pc \in {"handler", "finally"}) =>
           /\ req[r].db # None
           /\ sessions[req[r].db[1]] = [by |-> r, open |-> TRUE]
    /\ (req[r].call # None) => req[r].db # None
    /\ req[r].pc = "finally" => ENABLED (get_db_finally(r) \/ db_session_teardown(r))
    /\ req[r].pc = "done" =>
           \A s \in DOMAIN sessions : sessions[s].by = r => ~sessions[s].open

\* C3: the session of a request (get_db) or test (db_session) is opened before
\* the handler or test body runs and is open while it runs; it is eventually
\* closed whichever way the body ends, by a return, by the 404 HTTPException or
\* by a store failure; a request that has completed has no open session.
C3_SessionScoped ==
    /\ [](\A r \in DOMAIN req : Scoped(r))
    /\ \A r \in {1} :
           (\E s \in DOMAIN sessions : sessions[s].by = r /\ sessions[s].open)
               ~> (/\ req[r].pc = "done"
                   /\ \A s \in DOMAIN sessions : sessions[s].by = r => ~sessions[s].open)

\* A request whose data-access call raised has completed, its session closed.
C3_Witness ==
    \E r \in DOMAIN req :
        /\ req[r].pc = "done"
        /\ req[r].raised = "OperationalError"
        /\ req[r].status = 500
        /\ req[r].db # None
        /\ ~sessions[req[r].db[1]].open

\* C4: GET / answers {"message": "API health check successful"} in every
\* state: it can always be answered, it never fails, it gets no session and
\* makes no data-access call, whatever the store holds and whether it answers.
C4_HealthCheck ==
    \A r \in DOMAIN req :
        req[r].op = "root" =>
            /\ req[r].pc \in {"routed", "done"}
            /\ req[r].pc = "routed" => ENABLED root(r)
            /\ req[r].db = None
            /\ req[r].call = None
            /\ \A s \in DOMAIN sessions : sessions[s].by # r
            /\ req[r].pc = "done" =>
                   /\ req[r].status = 200
                   /\ req[r].raised = ""
                   /\ req[r].body = [message |-> "API health check successful"]

\* GET / has been answered while the store does not answer.
C4_Witness ==
    \E r \in DOMAIN req :
        /\ req[r].op = "root"
        /\ req[r].pc = "done"
        /\ ~storeUp

\* The value a list handler must pass on for a query parameter the caller may
\* leave out.
Passed(given, default) == IF given = None THEN default ELSE given[1]

ListOps == {"read_players", "read_performances", "read_leagues", "read_teams"}

\* C5: a list handler calls its data-access function with the values the caller
\* supplied, unchanged, with skip = 0 and limit = 100 and every filter None for
\* what the caller left out, and answers exactly what that call returned.
C5_PassThrough ==
    \A r \in DOMAIN req :
        (req[r].op \in ListOps /\ req[r].pc \in {"finally", "done"}) =>
            LET given == req[r].params
                call == req[r].call[1]
            IN /\ req[r].call # None
               /\ call.skip = Passed(given.skip, 0)
               /\ call.limit = Passed(given.limit, 100)
               /\ call.min_last_changed_date = given.minimum_last_changed_date
               /\ req[r].op = "read_players" =>
                      /\ call.fn = "get_players"
                      /\ DOMAIN call = {"fn", "skip", "limit", "min_last_changed_date",
                                        "first_name", "last_name"}
                      /\ call.first_name = given.first_name
                      /\ call.last_name = given.last_name
               /\ req[r].op = "read_performances" =>
                      /\ call.fn = "get_performances"
                      /\ DOMAIN call = {"fn", "skip", "limit", "min_last_changed_date"}
               /\ req[r].op = "read_leagues" =>
                      /\ call.fn = "get_leagues"
                      /\ DOMAIN call = {"fn", "skip", "limit", "min_last_changed_date",
                                        "league_name"}
                      /\ call.league_name = given.league_name
               /\ req[r].op = "read_teams" =>
                      /\ call.fn = "get_teams"
                      /\ DOMAIN call = {"fn", "skip", "limit", "min_last_changed_date",
                                        "team_name", "league_id"}
                      /\ call.team_name = given.team_name
                      /\ call.league_id = given.league_id
               /\ req[r].returned # None =>
                      /\ req[r].returned[1] = crud(store, call)
                      /\ req[r].status = 200
                      /\ req[r].body = req[r].returned[1]

\* GET /v0/players/?last_name=Young, nothing else given, answered the players
\* named Young and not the ones whose first name is Young.
C5_Witness ==
    \E r \in DOMAIN req :
        /\ Handled(r, "read_players")
        /\ req[r].params = [skip |-> None, limit |-> None,
                            minimum_last_changed_date |-> None,
                            first_name |-> None, last_name |-> Some("Young")]
        /\ req[r].status = 200
        /\ req[r].body # << >>

\* C6: no operation of the system changes the store: a step changes the rows
\* of a table only if it is a step of the external loader.
C6_ReadOnly == [][store' = store \/ ExternalLoad]_vars

\* A request has ended in a store failure and another step has followed.
C6_Witness ==
    \E r \in DOMAIN req :
        /\ req[r].pc = "done"
        /\ req[r].status = 500
        /\ store = ReferenceStore

\* The call a list handler makes for the query parameters given.
HandlerCall(op, params) ==
    CASE op = "read_players" -> read_players_call(params)
      [] op = "read_performances" -> read_performances_call(params)
      [] op = "read_leagues" -> read_leagues_call(params)
      [] op = "read_teams" -> read_teams_call(params)

\* Every row of the table a list operation reads, in the order of the table.
Unfiltered(op) ==
    CASE op = "read_players" -> store.players
      [] op = "read_performances" -> store.performances
      [] op = "read_leagues" -> Leagues(store, store.leagues)
      [] op = "read_teams" -> store.teams

\* C7: for a list operation without filters on an unchanged store, the answer to
\* skip = 0, limit = N and the answer to skip = N, limit = M have no item in
\* common and, one after the other, are the first N + M items of the whole
\* unfiltered result.
C7_Pagination ==
    \A r \in DOMAIN req :
        (/\ req[r].op \in ListOps
         /\ req[r].pc \in {"finally", "done"}
         /\ req[r].status = 200
         /\ req[r].params.skip \in {None, Some(0)}
         /\ \A p \in DOMAIN req[r].params \ {"skip", "limit"} : req[r].params[p] = None) =>
            LET N == Passed(req[r].params.limit, 100)
                page1 == req[r].body
                whole == Unfiltered(req[r].op)
            IN \A M \in 0..(MaxPage + 1) :
                   LET page2 == crud(store, HandlerCall(req[r].op,
                                    [req[r].params EXCEPT !.skip = Some(N),
                                                          !.limit = Some(M)]))
                   IN /\ \A i \in DOMAIN page1, j \in DOMAIN page2 : page1[i] # page2[j]
                      /\ page1 \o page2 = SubSeq(whole, 1, Min(Len(whole), N + M))

\* The first page of one of four performances.
C7_Witness ==
    \E r \in DOMAIN req :
        /\ Handled(r, "read_performances")
        /\ req[r].status = 200
        /\ req[r].params = [skip |-> Some(0), limit |-> Some(1),
                            minimum_last_changed_date |-> None]
        /\ Len(req[r].body) = 1
        /\ Len(store.performances) = 4

\* C8, as claimed: a call of the SDK that met a transient failure (a network
\* error or a server error) was tried again before it ended.
C8_TransientIsRetried ==
    \A i \in DOMAIN client.log :
        Transient(client.log[i].outcomes[1]) => Len(client.log[i].outcomes) > 1

\* C8, amended: get_health_check, the one outbound call of SWCClient, sends one
\* GET / and never tries again: a network error reaches the caller at once, and
\* a response, a 404 or a server error too, is returned as it came; the client
\* the with statement opened is closed when the call has ended.
C8_SingleAttempt ==
    /\ Len(client.outcomes) = 0
    /\ client.open <=> client.pc = "sending"
    /\ \A i \in DOMAIN client.log :
           LET done == client.log[i]
               met == done.outcomes[1]
           IN /\ done.path = "/"
              /\ Len(done.outcomes) = 1
              /\ met.error # "" => (done.raised = met.error /\ done.response = None)
              /\ met.error = "" =>
                     /\ done.raised = ""
                     /\ done.response # None
                     /\ done.response[1].status_code = met.status_code

\* Three calls have ended: one met a network error, one a 503, one a 404.
C8_Witness ==
    /\ Len(client.log) = 3
    /\ client.log[1].raised = "ConnectError"
    /\ client.log[2].response # None
    /\ client.log[2].response[1].status_code = 503
    /\ client.log[3].response # None
    /\ client.log[3].response[1].status_code = NotFound

\* C9: concurrent requests never share a session: the session of a request is
\* the one its own dependency call made, no session is held by two requests,
\* and the session of a request whose handler has not finished is open however
\* many other requests have closed theirs.
C9_OwnSession ==
    \A r \in DOMAIN req :
        req[r].db # None =>
            /\ req[r].db[1] \in DOMAIN sessions
            /\ sessions[req[r].db[1]].by = r
            /\ \A q \in DOMAIN req \ {r} : req[q].db # req[r].db
            /\ req[r].pc \in {"handler", "finally"} => sessions[req[r].db[1]].open

\* A request got its session after another one and has closed it, while the
\* other one, its handler still to run, holds its session open.
C9_Witness ==
    \E r, q \in DOMAIN req :
        /\ req[r].pc = "done"
        /\ req[r].db # None
        /\ req[q].pc = "handler"
        /\ req[q].db[1] < req[r].db[1]
        /\ sessions[req[q].db[1]].open
        /\ ~sessions[req[r].db[1]].open

\* Every list request for players or leagues that a caller may send.
ListRequests(op) == {q \in AllRequests : q.op = op}

=============================================================================
